---------------------------- MODULE Spec2Model ----------------------------
(***************************************************************************)
(* Model of src/automacao_k1max.py: the retrying request client            *)
(* (robust_http_request), the simulated device (MoonrakerMockClient), the  *)
(* printer facade (K1MaxBridge) with its WebSocket monitoring loop, and    *)
(* the orchestrator (automate_k1max_printing_workflow).                    *)
(*                                                                         *)
(* check_bed_clear of src/camera_utils.py is modelled too                  *)
(* (entry = "camera").                                                     *)
(*                                                                         *)
(* A run is one call made by a caller: of the orchestrator                 *)
(* (entry = "workflow"), of robust_http_request (entry = "http"), of       *)
(* K1MaxBridge.monitor_print_status on a fresh bridge (entry = "monitor"), *)
(* of one other method of a fresh bridge (entry = "facade"), or the        *)
(* script run from the command line (entry = "main").                      *)
(* The network, the file system and the peer of the WebSocket are the      *)
(* environment: their answers are nondeterministic choices.                *)
(***************************************************************************)
EXTENDS Integers, Sequences, FiniteSets, TLC

(***************************************************************************)
(* Bounds of the model.                                                    *)
(***************************************************************************)
\* longest local path (in characters) a caller passes
MaxPathLen == 2
\* largest retry budget a direct caller of robust_http_request passes
MaxRetries == 4
\* largest initial delay a direct caller of robust_http_request passes
MaxDelay == 2
\* idle timeouts of the WebSocket receive modelled per monitoring run
MaxTimeouts == 2
\* most command-line arguments after the script name
MaxArgs == 2

(***************************************************************************)
(* Program constants.                                                      *)
(***************************************************************************)
\* robust_http_request(..., retries: int = 5, delay: int = 2)
DefaultRetries == 5
DefaultDelay == 2
\* for i in range(5) of the readiness stage
ReadyPolls == 5
\* num_frames_to_check = 5 of check_bed_clear
NumFramesToCheck == 5
\* MIN_OBJECT_AREA = 1000
MIN_OBJECT_AREA == 1000
\* ENABLE_MOCK_API_RESPONSES = True
ENABLE_MOCK_API_RESPONSES == TRUE

(***************************************************************************)
(* Python / JSON values.  None and JSON null are the same value.           *)
(* A dict is a record of values, a str is JStr (a phase, a method name) or *)
(* JName (a file name, kept as its sequence of characters), a number is    *)
(* JNum, a list is JList.                                                  *)
(***************************************************************************)
None == [t |-> "null"]
JStr(s) == [t |-> "str", s |-> s]
JName(c) == [t |-> "name", c |-> c]
JNum(n) == [t |-> "num", n |-> n]
JList(l) == [t |-> "list", l |-> l]
JDict(f) == [t |-> "dict", v |-> f]
EmptyDict == JDict([k \in {} |-> None])

\* the exceptions the model tells apart
Raised(e) == [t |-> "raise", e |-> e]
IsRaised(x) == x.t = "raise"

\* Python truthiness: bool(x)
Truthy(x) ==
  CASE x.t = "null" -> FALSE
    [] x.t = "str"  -> x.s # ""
    [] x.t = "name" -> x.c # <<>>
    [] x.t = "num"  -> x.n # 0
    [] x.t = "list" -> x.l # <<>>
    [] x.t = "dict" -> DOMAIN x.v # {}
    [] x.t = "bool" -> x.b
    [] OTHER        -> TRUE

\* d.get(k, default): AttributeError when d is not a dict (None, str, list, number)
PyGet(d, k, default) ==
  IF IsRaised(d) THEN d
  ELSE IF d.t # "dict" THEN Raised("AttributeError")
  ELSE IF k \in DOMAIN d.v THEN d.v[k] ELSE default

(***************************************************************************)
(* os.path.basename (posixpath): i = p.rfind('/') + 1; return p[i:]        *)
(***************************************************************************)
Chars == {"a", "/"}

RECURSIVE SeqsOfLen(_)
SeqsOfLen(n) ==
  IF n = 0 THEN {<<>>}
  ELSE {Append(s, c) : s \in SeqsOfLen(n - 1), c \in Chars}

Paths == UNION {SeqsOfLen(n) : n \in 0..MaxPathLen}

RFind(p) ==
  LET hits == {k \in 1..Len(p) : p[k] = "/"}
  IN  IF hits = {} THEN 0 ELSE CHOOSE k \in hits : \A j \in hits : j <= k

Basename(p) == SubSeq(p, RFind(p) + 1, Len(p))

Names == {Basename(p) : p \in Paths}

(***************************************************************************)
(* The phases of the device (spec section 3) and the response bodies the   *)
(* device can answer an HTTP request with (the value of response.json()).  *)
(***************************************************************************)
Phases ==
  {"ready", "idle", "printing", "paused", "complete", "error", "cancelled",
   "shutdown", "unknown"}

StatusBody(printer) ==
  JDict([result |-> JDict([status |-> JDict([printer |-> printer])])])

StateBody(state) == StatusBody(JDict([state |-> state]))

InfoBody == JDict([result |-> JDict([api_version |-> JStr("1.0")])])

Bodies ==
  {None, EmptyDict, JStr("ok"), JList(<<JStr("ok")>>), InfoBody,
   JDict([result |-> None]), JDict([result |-> JStr("ok")]),
   JDict([result |-> EmptyDict]),
   JDict([result |-> JDict([status |-> None])]),
   JDict([result |-> JDict([status |-> EmptyDict])]),
   StatusBody(None), StatusBody(EmptyDict), StateBody(None)}
  \cup {StateBody(JStr(ph)) : ph \in Phases}

(***************************************************************************)
(* Booleans returned by the program, and the value of a call that has not  *)
(* returned.                                                               *)
(***************************************************************************)
JBool(b) == [t |-> "bool", b |-> b]
Pending == [t |-> "pending"]

(***************************************************************************)
(* MoonrakerMockClient._print_progress is a float.  The model keeps        *)
(* floor(1000 * progress); the sums of 0.1 are those of IEEE doubles       *)
(* (0.7 + 0.1 = 0.7999999999999999, so ten additions stay below 1.0).      *)
(***************************************************************************)
ProgressOne == 1000
ProgressStep == 100
FloatAddTenth(p) == IF p = 700 THEN 799 ELSE p + ProgressStep

VARIABLES
  entry,              \* which function the caller invoked
  enable_mock,        \* K1MaxBridge.enable_mock / use_mock
  local_gcode_path,   \* the path the caller passes
  fileExists,         \* whether open(local_gcode_path, 'rb') finds the file
  pathExists,         \* os.path.exists(local_gcode_path): a file or a directory
  argv,               \* sys.argv
  mainPc,             \* where the script is
  exit_status,        \* the exit status of the process, once it has ended
  \* check_bed_clear
  camPc, camRet,
  reference,          \* the reference image: "missing", "unreadable" or "ok"
  camOpens,           \* whether cap.isOpened() is true
  frame_i,            \* the loop variable i of line 78
  objects_detected_count,
  frames_analysed,    \* how many frames were read and compared
  cap_released,       \* whether cap.release() was called
  \* robust_http_request
  httpPc, retries, delay, i, files_closed, httpRet, httpTrace, delay0,
  \* MoonrakerMockClient
  printer_state, print_filename, print_progress,
  \* the K1MaxBridge method in progress
  op, opPc, opRet,
  opArg,              \* the argument of that method
  \* K1MaxBridge.monitor_print_status
  monPc, filename_expected, print_completed_successfully, monRet, monExc,
  websocket,          \* the local variable websocket: "unbound", or the
                      \* connection, "open", "lost" (closed by the peer or
                      \* by an error) or "closed" (by websocket_close)
  lastRecv,           \* what the last websocket_recv produced
  onlyQuiet,          \* every receive so far was a matching non-terminal notification
  seenComplete,       \* a matching notification of phase complete was received
  nSubscribe, nTimeouts, nClose,
  \* automate_k1max_printing_workflow
  wfPc, wfRet, poll_i, gcode_filename_on_printer,
  calls,              \* how often the orchestrator invoked each bridge method
  polls,              \* what each readiness poll returned, in order
  nPause              \* how often the readiness stage slept

camVars ==
  <<camPc, camRet, reference, camOpens, frame_i, objects_detected_count,
    frames_analysed, cap_released>>
envVars ==
  <<entry, enable_mock, local_gcode_path, fileExists, pathExists, argv, mainPc,
    exit_status, camVars>>
httpVars == <<httpPc, retries, delay, i, files_closed, httpRet, httpTrace, delay0>>
mockVars == <<printer_state, print_filename, print_progress>>
opVars == <<op, opPc, opRet, opArg>>
monVars ==
  <<monPc, filename_expected, print_completed_successfully, monRet, monExc,
    websocket, lastRecv, onlyQuiet, seenComplete, nSubscribe, nTimeouts, nClose>>
wfVars == <<wfPc, wfRet, poll_i, gcode_filename_on_printer, calls, polls, nPause>>
vars == <<envVars, httpVars, mockVars, opVars, monVars, wfVars>>

(***************************************************************************)
(* robust_http_request (lines 25-51).  httpTrace records, in order, every  *)
(* requests.request call (with its outcome) and every asyncio.sleep call   *)
(* (with its delay) of the current call.                                   *)
(***************************************************************************)
EvAttempt(ok) == [ev |-> "attempt", ok |-> ok, d |-> 0, body |-> None]
EvSleep(d) == [ev |-> "sleep", ok |-> FALSE, d |-> d, body |-> None]
\* the attempt that succeeds, with what response.json() gave for it
EvAnswer(body) == [ev |-> "attempt", ok |-> TRUE, d |-> 0, body |-> body]

HttpIdle ==
  /\ httpPc = "idle" /\ retries = 0 /\ delay = 0 /\ i = 0 /\ delay0 = 0
  /\ files_closed = FALSE /\ httpRet = None /\ httpTrace = <<>>

\* the call: parameters bound, for i in range(retries) about to start
HttpCall(n, d, closed) ==
  /\ httpPc' = "loop"
  /\ retries' = n
  /\ delay' = d
  /\ delay0' = d
  /\ i' = 0
  /\ files_closed' = closed
  /\ httpRet' = None
  /\ httpTrace' = <<>>

\* line 31 with the range exhausted, line 51: return None
HttpLoopExit ==
  /\ httpPc = "loop"
  /\ i >= retries
  /\ httpPc' = "returned"
  /\ httpRet' = None
  /\ UNCHANGED <<retries, delay, i, files_closed, httpTrace, delay0>>
  /\ UNCHANGED <<envVars, mockVars, opVars, monVars, wfVars>>

\* HttpAttemptOk with None returned in place of the parsed response
HttpAttemptOk_ReturnsNone ==
  /\ httpPc = "loop"
  /\ i < retries
  /\ ~files_closed
  /\ \E body \in Bodies :
       /\ httpRet' = None
       /\ httpTrace' = Append(httpTrace, EvAnswer(body))
  /\ httpPc' = "returned"
  /\ UNCHANGED <<retries, delay, i, files_closed, delay0>>
  /\ UNCHANGED <<envVars, mockVars, opVars, monVars, wfVars>>

\* lines 32-41: the attempt succeeds (2xx), return response.json()
HttpAttemptOk ==
  /\ httpPc = "loop"
  /\ i < retries
  /\ ~files_closed
  /\ \E body \in Bodies :
       /\ httpRet' = body
       /\ httpTrace' = Append(httpTrace, EvAnswer(body))
  /\ httpPc' = "returned"
  /\ UNCHANGED <<retries, delay, i, files_closed, delay0>>
  /\ UNCHANGED <<envVars, mockVars, opVars, monVars, wfVars>>

\* lines 42-50: the attempt raises a RequestException (timeout, connection
\* error, raise_for_status on a non-2xx status)
HttpAttemptFail ==
  /\ httpPc = "loop"
  /\ i < retries
  /\ ~files_closed
  /\ httpTrace' = Append(httpTrace, EvAttempt(FALSE))
  /\ IF i < retries - 1
       THEN httpPc' = "sleep" /\ httpRet' = httpRet
       ELSE httpPc' = "returned" /\ httpRet' = None
  /\ UNCHANGED <<retries, delay, i, files_closed, delay0>>
  /\ UNCHANGED <<envVars, mockVars, opVars, monVars, wfVars>>

\* lines 34-35 with a closed file object in files_data: requests reads the
\* file while preparing the body, fp.read() raises ValueError, which is no
\* RequestException and leaves robust_http_request before anything is sent
HttpAttemptClosedFile ==
  /\ httpPc = "loop"
  /\ i < retries
  /\ files_closed
  /\ httpPc' = "raised"
  /\ httpRet' = Raised("ValueError")
  /\ UNCHANGED <<retries, delay, i, files_closed, httpTrace, delay0>>
  /\ UNCHANGED <<envVars, mockVars, opVars, monVars, wfVars>>

\* HttpSleep with the doubling of line 47 left out
HttpSleep_NoDoubling ==
  /\ httpPc = "sleep"
  /\ httpTrace' = Append(httpTrace, EvSleep(delay))
  /\ delay' = delay
  /\ i' = i + 1
  /\ httpPc' = "loop"
  /\ UNCHANGED <<retries, files_closed, httpRet, delay0>>
  /\ UNCHANGED <<envVars, mockVars, opVars, monVars, wfVars>>

\* lines 45-47: await asyncio.sleep(delay); delay *= 2; next iteration
HttpSleep ==
  /\ httpPc = "sleep"
  /\ httpTrace' = Append(httpTrace, EvSleep(delay))
  /\ delay' = delay * 2
  /\ i' = i + 1
  /\ httpPc' = "loop"
  /\ UNCHANGED <<retries, files_closed, httpRet, delay0>>
  /\ UNCHANGED <<envVars, mockVars, opVars, monVars, wfVars>>

(***************************************************************************)
(* MoonrakerMockClient.mock_http_request (lines 76-105): the response, and *)
(* the simulated device after the request.  The url is matched by          *)
(* substring against the endpoint names, in this order.                    *)
(***************************************************************************)
Endpoint(o) ==
  CASE o = "check_connection" -> "server/info"
    [] o = "get_printer_state" -> "printer/objects/query"
    [] o = "is_printer_ready" -> "printer/objects/query"
    [] o = "upload_gcode"     -> "server/files/upload"
    [] o = "start_print"      -> "printer/print/start"

MockHttpResponse(endpoint) ==
  CASE endpoint = "server/info" ->
         JDict([result |-> JDict([api_version |-> JStr("2.0.0-mock"),
                                  status |-> JStr("ok")])])
    [] endpoint = "printer/objects/query" ->
         JDict([result |->
           JDict([status |-> JDict([printer |-> JDict([state |-> JStr(printer_state)])]),
                  print_stats |-> JDict([state |-> JStr(printer_state),
                                         filename |-> print_filename,
                                         progress |-> JNum(print_progress)])])])
    [] endpoint = "server/files/upload" ->
         JDict([success |-> JBool(TRUE), file_id |-> JStr("mock_file_id")])
    [] endpoint = "printer/print/start" ->
         JDict([success |-> JBool(TRUE), job_id |-> JStr("mock_job_id")])
    [] OTHER ->
         JDict([status |-> JBool(TRUE), message |-> JStr("Mocked success")])

\* MockHttpEffect with the upload setting the phase to printing as well
MockHttpEffect_UploadStartsPrint(endpoint, filename) ==
  /\ printer_state' =
       IF endpoint \in {"printer/print/start", "server/files/upload"}
       THEN "printing" ELSE printer_state
  /\ print_filename' =
       IF endpoint = "server/files/upload" THEN filename ELSE print_filename
  /\ print_progress' = print_progress

\* files_data['file'][0] is the base name upload_gcode put there (line 198)
MockHttpEffect(endpoint, filename) ==
  /\ printer_state' =
       IF endpoint = "printer/print/start" THEN "printing" ELSE printer_state
  /\ print_filename' =
       IF endpoint = "server/files/upload" THEN filename ELSE print_filename
  /\ print_progress' = print_progress

(***************************************************************************)
(* MoonrakerMockClient.mock_websocket_recv (lines 107-133): the simulated  *)
(* device after the receive, and the frame returned.  json.dumps followed  *)
(* by json.loads gives back a dict of str keys, str, float, int, list and  *)
(* None values unchanged.                                                  *)
(***************************************************************************)
MockAdvances == printer_state = "printing" /\ print_progress < ProgressOne

\* MockRecvProgress without the assignment of line 113
MockRecvProgress_NoClamp ==
  IF MockAdvances
  THEN FloatAddTenth(print_progress)
  ELSE print_progress

\* lines 110-113: the progress after the receive
MockRecvProgress ==
  IF MockAdvances
  THEN IF FloatAddTenth(print_progress) >= ProgressOne
       THEN ProgressOne
       ELSE FloatAddTenth(print_progress)
  ELSE print_progress

\* MockRecvState with set_printer_state("error") at line 114
MockRecvState_EndsInError ==
  IF MockAdvances /\ FloatAddTenth(print_progress) >= ProgressOne
  THEN "error"
  ELSE printer_state

\* lines 110-114: the phase after the receive
MockRecvState ==
  IF MockAdvances /\ FloatAddTenth(print_progress) >= ProgressOne
  THEN "complete"
  ELSE printer_state

MockRecvFrame ==
  JDict([jsonrpc |-> JStr("2.0"),
         method |-> JStr("notify_status_update"),
         params |-> JList(<<
           JDict([print_stats |->
                    JDict([state |-> JStr(MockRecvState),
                           filename |-> print_filename,
                           total_duration |-> JNum(3600),
                           print_duration |-> JNum((MockRecvProgress * 3600) \div ProgressOne),
                           progress |-> JNum(MockRecvProgress)]),
                  toolhead |-> JDict([position |-> JList(<<JNum(10), JNum(10), JNum(10)>>)]),
                  extruder |-> JDict([temperature |-> JNum(200), target |-> JNum(200)]),
                  heater_bed |-> JDict([temperature |-> JNum(60), target |-> JNum(60)])])>>)])

(***************************************************************************)
(* K1MaxBridge: what each method makes of the response of _make_request.   *)
(***************************************************************************)
\* check_connection, lines 169-173 (line 170 evaluates the nested .get)
CheckConnection(response_data) ==
  IF Truthy(response_data)
  THEN LET v == PyGet(PyGet(response_data, "result", EmptyDict), "api_version", None)
       IN  IF IsRaised(v) THEN v ELSE JBool(TRUE)
  ELSE JBool(FALSE)

\* get_printer_state, lines 178-183
GetPrinterState(response_data) ==
  IF Truthy(response_data)
  THEN PyGet(PyGet(PyGet(PyGet(response_data, "result", EmptyDict),
                         "status", EmptyDict), "printer", EmptyDict), "state", None)
  ELSE None

\* IsPrinterReady with "idle" missing from the list of line 188
IsPrinterReady_OnlyReady(response_data) ==
  LET state == GetPrinterState(response_data)
  IN  IF IsRaised(state) THEN state
      ELSE JBool(state \in {JStr("ready")})

\* is_printer_ready, lines 187-188: state in ["ready", "idle"]
IsPrinterReady(response_data) ==
  LET state == GetPrinterState(response_data)
  IN  IF IsRaised(state) THEN state
      ELSE JBool(state \in {JStr("ready"), JStr("idle")})

\* upload_gcode, lines 203-213: every exception of the request is caught
UploadGcode(response_data, file_path) ==
  IF IsRaised(response_data) THEN None
  ELSE IF Truthy(response_data) THEN JName(Basename(file_path))
  ELSE None

\* start_print, lines 219-223
StartPrint(response_data) ==
  IF IsRaised(response_data) THEN response_data
  ELSE JBool(Truthy(response_data))

OpResult(o, response_data, arg) ==
  CASE o = "check_connection" -> CheckConnection(response_data)
    [] o = "get_printer_state" -> GetPrinterState(response_data)
    [] o = "is_printer_ready" -> IsPrinterReady(response_data)
    [] o = "upload_gcode"     -> UploadGcode(response_data, arg.c)
    [] o = "start_print"      -> StartPrint(response_data)

Ops ==
  {"check_connection", "get_printer_state", "is_printer_ready", "upload_gcode",
   "start_print"}

OpIdle == op = "none" /\ opPc = "idle" /\ opRet = Pending /\ opArg = None

\* the call of a bridge method with its argument (None for the methods
\* that take none)
OpCall(o, arg) == op' = o /\ opPc' = "request" /\ opRet' = Pending /\ opArg' = arg

\* _make_request in simulation mode (line 161): mock_http_request answers at once
OpRequestMock ==
  /\ opPc = "request"
  /\ enable_mock
  /\ MockHttpEffect(Endpoint(op),
                    IF op = "upload_gcode" THEN JName(Basename(opArg.c)) ELSE None)
  /\ LET r == OpResult(op, MockHttpResponse(Endpoint(op)), opArg)
     IN  /\ opRet' = r
         /\ opPc' = IF IsRaised(r) THEN "raised" ELSE "returned"
  /\ UNCHANGED <<op, opArg>>
  /\ UNCHANGED <<envVars, httpVars, monVars, wfVars>>

\* upload_gcode on a real device, line 200: open() raises FileNotFoundError
\* (lines 208-210), or IsADirectoryError for a directory (lines 211-213):
\* None is returned and nothing is requested
OpUploadNoFile ==
  /\ opPc = "request"
  /\ ~enable_mock
  /\ op = "upload_gcode"
  /\ ~fileExists
  /\ opRet' = None
  /\ opPc' = "returned"
  /\ UNCHANGED <<op, opArg>>
  /\ UNCHANGED <<envVars, httpVars, mockVars, monVars, wfVars>>

\* OpRequestReal with the request issued although open() found no file
OpRequestReal_NoOpen ==
  /\ opPc = "request"
  /\ ~enable_mock
  /\ HttpCall(DefaultRetries, DefaultDelay, op = "upload_gcode")
  /\ opPc' = "wait"
  /\ UNCHANGED <<op, opRet, opArg>>
  /\ UNCHANGED <<envVars, mockVars, monVars, wfVars>>

\* _make_request on a real device (line 163): robust_http_request with its
\* default retries and delay.  upload_gcode leaves its with block (lines
\* 200-201) before line 203, so the file object in files_data is closed.
OpRequestReal ==
  /\ opPc = "request"
  /\ ~enable_mock
  /\ op = "upload_gcode" => fileExists
  /\ HttpCall(DefaultRetries, DefaultDelay, op = "upload_gcode")
  /\ opPc' = "wait"
  /\ UNCHANGED <<op, opRet, opArg>>
  /\ UNCHANGED <<envVars, mockVars, monVars, wfVars>>

\* robust_http_request has returned or raised: the method finishes
OpResponse ==
  /\ opPc = "wait"
  /\ httpPc \in {"returned", "raised"}
  /\ LET r == OpResult(op, httpRet, opArg)
     IN  /\ opRet' = r
         /\ opPc' = IF IsRaised(r) THEN "raised" ELSE "returned"
  /\ UNCHANGED <<op, opArg>>
  /\ UNCHANGED <<envVars, httpVars, mockVars, monVars, wfVars>>

(***************************************************************************)
(* The frames of the WebSocket.  A frame is the JSON value json.loads      *)
(* returns for it, or BadJson when json.loads raises JSONDecodeError.      *)
(***************************************************************************)
Absent == [t |-> "absent"]
BadJson == [t |-> "badjson"]

\* a dict of the given keys, without those whose value is Absent
DictOf(kv) == JDict([k \in {x \in DOMAIN kv : kv[x] # Absent} |-> kv[k]])

PrintStats(state, filename, progress, print_duration) ==
  DictOf([state |-> state, filename |-> filename, progress |-> progress,
          print_duration |-> print_duration])

Notify(params) ==
  JDict([jsonrpc |-> JStr("2.0"), method |-> JStr("notify_status_update"),
         params |-> params])

StatusFrame(print_stats) ==
  Notify(JList(<<DictOf([print_stats |-> print_stats])>>))

FileNames == {JName(n) : n \in Names}

StatusFrames ==
  {StatusFrame(PrintStats(st, fn, pr, Absent)) :
     st \in {Absent, None} \cup {JStr(ph) : ph \in Phases},
     fn \in {Absent, None} \cup FileNames,
     pr \in {Absent, None, JNum(500)}}

OtherFrames ==
  {BadJson, None, JNum(1), JStr("ok"), JList(<<>>), EmptyDict,
   JDict([jsonrpc |-> JStr("2.0"), result |-> EmptyDict]),
   JDict([jsonrpc |-> JStr("2.0"), method |-> JStr("notify_proc_stat_update"),
          params |-> JList(<<EmptyDict>>)]),
   JDict([jsonrpc |-> JStr("2.0"), method |-> JStr("notify_status_update")]),
   Notify(None), Notify(JList(<<>>)), Notify(JList(<<JStr("ok")>>)),
   Notify(JList(<<None>>)), StatusFrame(Absent), StatusFrame(None),
   StatusFrame(JStr("ok")),
   StatusFrame(PrintStats(JStr("complete"), JName(<<"a">>), JNum(1000), None)),
   StatusFrame(PrintStats(JStr("complete"), JName(<<"a">>), JStr("ok"), Absent))}

Frames == StatusFrames \cup OtherFrames

\* what websocket_recv can produce besides a frame
NoRecv == [t |-> "norecv"]
RecvTimeout == [t |-> "TimeoutError"]
RecvClosedOK == [t |-> "ConnectionClosedOK"]
RecvError(e) == [t |-> "error", e |-> e]

\* k in x: "yes", "no", or "raise" (TypeError: x is not iterable)
PyIn(k, x) ==
  CASE x.t = "dict" -> IF k \in DOMAIN x.v THEN "yes" ELSE "no"
    [] x.t = "list" -> IF \E j \in 1..Len(x.l) : x.l[j] = JStr(k) THEN "yes" ELSE "no"
    [] x.t = "str"  -> IF x.s = k THEN "yes" ELSE "no"
    [] x.t = "name" -> "no"
    [] OTHER        -> "raise"

\* f"{x:.2f}" and x * 100 work for numbers (and bools) only
IsNumber(x) == x.t \in {"num", "bool"}

(***************************************************************************)
(* The body of the receive loop for one frame, lines 267-291:              *)
(* "complete" and "terminal" are the two breaks of lines 284 and 287,      *)
(* "continue" is the next iteration, "JSONDecodeError" and "Exception" are *)
(* the handlers of lines 302 and 305 (both break).                         *)
(***************************************************************************)
\* HandleStats with "shutdown" missing from the list of line 285
HandleStats_NoShutdown(print_stats, expected) ==
  LET current_state == print_stats.v["state"]
      progress == PyGet(print_stats, "progress", JNum(0))
      print_duration == PyGet(print_stats, "print_duration", JNum(0))
  IN  IF ~IsNumber(progress) \/ ~IsNumber(print_duration) THEN "Exception"
      ELSE IF PyGet(print_stats, "filename", None) = expected
      THEN IF current_state = JStr("complete") THEN "complete"
           ELSE IF current_state \in {JStr("error"), JStr("cancelled")}
           THEN "terminal"
           ELSE "continue"
      ELSE "continue"

\* HandleStats with a break after the log of line 289
HandleStats_PausedEnds(print_stats, expected) ==
  LET current_state == print_stats.v["state"]
      progress == PyGet(print_stats, "progress", JNum(0))
      print_duration == PyGet(print_stats, "print_duration", JNum(0))
  IN  IF ~IsNumber(progress) \/ ~IsNumber(print_duration) THEN "Exception"
      ELSE IF PyGet(print_stats, "filename", None) = expected
      THEN IF current_state = JStr("complete") THEN "complete"
           ELSE IF current_state \in {JStr("error"), JStr("cancelled"), JStr("shutdown")}
           THEN "terminal"
           ELSE IF current_state = JStr("paused") THEN "terminal"
           ELSE "continue"
      ELSE "continue"

\* HandleStats taking a notification without a filename for the expected file
HandleStats_AnyFile(print_stats, expected) ==
  LET current_state == print_stats.v["state"]
      progress == PyGet(print_stats, "progress", JNum(0))
      print_duration == PyGet(print_stats, "print_duration", JNum(0))
  IN  IF ~IsNumber(progress) \/ ~IsNumber(print_duration) THEN "Exception"
      ELSE IF PyGet(print_stats, "filename", expected) = expected
      THEN IF current_state = JStr("complete") THEN "complete"
           ELSE IF current_state \in {JStr("error"), JStr("cancelled"), JStr("shutdown")}
           THEN "terminal"
           ELSE "continue"
      ELSE "continue"

HandleStats(print_stats, expected) ==
  LET current_state == print_stats.v["state"]
      progress == PyGet(print_stats, "progress", JNum(0))
      print_duration == PyGet(print_stats, "print_duration", JNum(0))
  IN  IF ~IsNumber(progress) \/ ~IsNumber(print_duration) THEN "Exception"
      ELSE IF PyGet(print_stats, "filename", None) = expected
      THEN IF current_state = JStr("complete") THEN "complete"
           ELSE IF current_state \in {JStr("error"), JStr("cancelled"), JStr("shutdown")}
           THEN "terminal"
           ELSE "continue"
      ELSE "continue"

HandleData(data, expected) ==
  LET print_stats == PyGet(data, "print_stats", EmptyDict)
  IN  IF IsRaised(print_stats) THEN "Exception"
      ELSE IF PyIn("state", print_stats) = "raise" THEN "Exception"
      ELSE IF PyIn("state", print_stats) = "no" THEN "continue"
      ELSE IF print_stats.t # "dict" THEN "Exception"
      ELSE HandleStats(print_stats, expected)

\* MonHandle with a status notification without params skipped
MonHandle_NoParamsContinues(frame, expected) ==
  IF frame = BadJson THEN "JSONDecodeError"
  ELSE IF PyIn("method", frame) = "raise" THEN "Exception"
  ELSE IF PyIn("method", frame) = "no" THEN "continue"
  ELSE IF frame.t # "dict" THEN "Exception"
  ELSE IF frame.v["method"] # JStr("notify_status_update") THEN "continue"
  ELSE IF "params" \notin DOMAIN frame.v THEN "continue"
  ELSE IF frame.v["params"].t # "list" THEN "Exception"
  ELSE IF frame.v["params"].l = <<>> THEN "Exception"
  ELSE HandleData(frame.v["params"].l[1], expected)

\* lines 267-270: json.loads, the test of the method, response_data["params"][0]
MonHandle(frame, expected) ==
  IF frame = BadJson THEN "JSONDecodeError"
  ELSE IF PyIn("method", frame) = "raise" THEN "Exception"
  ELSE IF PyIn("method", frame) = "no" THEN "continue"
  ELSE IF frame.t # "dict" THEN "Exception"
  ELSE IF frame.v["method"] # JStr("notify_status_update") THEN "continue"
  ELSE IF "params" \notin DOMAIN frame.v THEN "Exception"
  ELSE IF frame.v["params"].t # "list" THEN "Exception"
  ELSE IF frame.v["params"].l = <<>> THEN "Exception"
  ELSE HandleData(frame.v["params"].l[1], expected)

(***************************************************************************)
(* What a frame is, read off the frame alone: the status notification of   *)
(* a file in a phase.                                                      *)
(***************************************************************************)
IsStatus(frame) ==
  /\ frame.t = "dict"
  /\ {"method", "params"} \subseteq DOMAIN frame.v
  /\ frame.v["method"] = JStr("notify_status_update")
  /\ frame.v["params"].t = "list"
  /\ frame.v["params"].l # <<>>
  /\ frame.v["params"].l[1].t = "dict"
  /\ "print_stats" \in DOMAIN frame.v["params"].l[1].v
  /\ LET ps == frame.v["params"].l[1].v["print_stats"]
     IN  /\ ps.t = "dict"
         /\ "state" \in DOMAIN ps.v
         /\ ps.v["state"].t = "str"
         /\ "progress" \in DOMAIN ps.v => ps.v["progress"].t = "num"
         /\ "print_duration" \in DOMAIN ps.v => ps.v["print_duration"].t = "num"

StatsOf(frame) == frame.v["params"].l[1].v["print_stats"].v
PhaseOf(frame) == StatsOf(frame)["state"].s
FilenameOf(frame) ==
  IF "filename" \in DOMAIN StatsOf(frame) THEN StatsOf(frame)["filename"] ELSE Absent

Matches(frame, expected) == IsStatus(frame) /\ FilenameOf(frame) = expected
Mismatches(frame, expected) == IsStatus(frame) /\ FilenameOf(frame) # expected
FailurePhases == {"error", "cancelled", "shutdown"}
TerminalPhases == {"complete"} \cup FailurePhases

\* a matching notification of a phase that is not terminal
Quiet(frame, expected) ==
  Matches(frame, expected) /\ PhaseOf(frame) \notin TerminalPhases

(***************************************************************************)
(* K1MaxBridge.monitor_print_status (lines 225-312).                       *)
(***************************************************************************)
MonIdle ==
  /\ monPc = "idle" /\ filename_expected = None
  /\ print_completed_successfully = FALSE /\ monRet = Pending /\ monExc = "none"
  /\ websocket = "unbound" /\ lastRecv = NoRecv /\ onlyQuiet = TRUE
  /\ seenComplete = FALSE
  /\ nSubscribe = 0 /\ nTimeouts = 0 /\ nClose = 0

\* the call, lines 230-248
MonCall(expected) ==
  /\ monPc' = "open"
  /\ filename_expected' = expected
  /\ print_completed_successfully' = FALSE
  /\ UNCHANGED <<monRet, monExc, websocket, lastRecv, onlyQuiet, seenComplete,
                 nSubscribe, nTimeouts, nClose>>

\* lines 249-253: the mock's send, recv and close are bound
MonOpenMock ==
  /\ monPc = "open"
  /\ enable_mock
  /\ monPc' = "subscribe"
  /\ UNCHANGED <<filename_expected, print_completed_successfully, monRet, monExc,
                 websocket, lastRecv, onlyQuiet, seenComplete, nSubscribe, nTimeouts, nClose>>
  /\ UNCHANGED <<envVars, httpVars, mockVars, opVars, wfVars>>

\* lines 256-259: websockets.connect returns
MonOpenReal ==
  /\ monPc = "open"
  /\ ~enable_mock
  /\ websocket' = "open"
  /\ monPc' = "subscribe"
  /\ UNCHANGED <<filename_expected, print_completed_successfully, monRet, monExc,
                 lastRecv, onlyQuiet, seenComplete, nSubscribe, nTimeouts, nClose>>
  /\ UNCHANGED <<envVars, httpVars, mockVars, opVars, wfVars>>

\* line 256: websockets.connect raises; the outer try has no except clause
MonOpenFail ==
  /\ monPc = "open"
  /\ ~enable_mock
  /\ monExc' = "OSError"
  /\ monPc' = "finally"
  /\ UNCHANGED <<filename_expected, print_completed_successfully, monRet,
                 websocket, lastRecv, onlyQuiet, seenComplete, nSubscribe, nTimeouts, nClose>>
  /\ UNCHANGED <<envVars, httpVars, mockVars, opVars, wfVars>>

\* line 261: the subscribe message is sent
MonSubscribe ==
  /\ monPc = "subscribe"
  /\ nSubscribe' = nSubscribe + 1
  /\ monPc' = "recv"
  /\ UNCHANGED <<filename_expected, print_completed_successfully, monRet, monExc,
                 websocket, lastRecv, onlyQuiet, seenComplete, nTimeouts, nClose>>
  /\ UNCHANGED <<envVars, httpVars, mockVars, opVars, wfVars>>

\* line 261: websocket.send raises (the connection is lost); line 261 is
\* outside the try of line 265
MonSubscribeFail ==
  /\ monPc = "subscribe"
  /\ ~enable_mock
  /\ monExc' = "ConnectionClosed"
  /\ websocket' \in {"open", "lost"}
  /\ monPc' = "finally"
  /\ UNCHANGED <<filename_expected, print_completed_successfully, monRet,
                 lastRecv, onlyQuiet, seenComplete, nSubscribe, nTimeouts, nClose>>
  /\ UNCHANGED <<envVars, httpVars, mockVars, opVars, wfVars>>

\* lines 266-291 for the frame received
MonFrame(frame) ==
  /\ lastRecv' = frame
  /\ onlyQuiet' = (onlyQuiet /\ Quiet(frame, filename_expected))
  /\ print_completed_successfully' =
       IF MonHandle(frame, filename_expected) = "complete"
       THEN TRUE ELSE print_completed_successfully
  /\ monPc' = IF MonHandle(frame, filename_expected) = "continue"
              THEN "recv" ELSE "finally"
  /\ seenComplete' =
       (seenComplete \/ (Matches(frame, filename_expected) /\ PhaseOf(frame) = "complete"))
  /\ UNCHANGED <<filename_expected, monRet, monExc, websocket,
                 nSubscribe, nTimeouts, nClose>>

\* line 266 in simulation mode: mock_websocket_recv (it answers after 1 s,
\* within max_idle_time)
MonRecvMock ==
  /\ monPc = "recv"
  /\ enable_mock
  /\ printer_state' = MockRecvState
  /\ print_progress' = MockRecvProgress
  /\ print_filename' = print_filename
  /\ MonFrame(MockRecvFrame)
  /\ UNCHANGED <<envVars, httpVars, opVars, wfVars>>

\* line 266 on a real device: the peer sends a frame
MonRecvReal ==
  /\ monPc = "recv"
  /\ ~enable_mock
  /\ \E frame \in Frames : MonFrame(frame)
  /\ UNCHANGED <<envVars, httpVars, mockVars, opVars, wfVars>>

\* MonRecvTimeout going back to the receive without the send of line 295
MonRecvTimeout_NoResubscribe ==
  /\ monPc = "recv"
  /\ ~enable_mock
  /\ nTimeouts < MaxTimeouts
  /\ nTimeouts' = nTimeouts + 1
  /\ lastRecv' = RecvTimeout
  /\ onlyQuiet' = FALSE
  /\ monPc' = "recv"
  /\ UNCHANGED <<filename_expected, print_completed_successfully, monRet, monExc,
                 websocket, seenComplete, nSubscribe, nClose>>
  /\ UNCHANGED <<envVars, httpVars, mockVars, opVars, wfVars>>

\* lines 293-294: asyncio.TimeoutError after max_idle_time
MonRecvTimeout ==
  /\ monPc = "recv"
  /\ ~enable_mock
  /\ nTimeouts < MaxTimeouts
  /\ nTimeouts' = nTimeouts + 1
  /\ lastRecv' = RecvTimeout
  /\ onlyQuiet' = FALSE
  /\ monPc' = "resubscribe"
  /\ UNCHANGED <<filename_expected, print_completed_successfully, monRet, monExc,
                 websocket, seenComplete, nSubscribe, nClose>>
  /\ UNCHANGED <<envVars, httpVars, mockVars, opVars, wfVars>>

\* MonResubscribe giving up at the second timeout
MonResubscribe_GivesUp ==
  /\ monPc = "resubscribe"
  /\ nSubscribe' = nSubscribe + 1
  /\ monPc' = IF nTimeouts >= 2 THEN "finally" ELSE "recv"
  /\ UNCHANGED <<filename_expected, print_completed_successfully, monRet, monExc,
                 websocket, lastRecv, onlyQuiet, seenComplete, nTimeouts, nClose>>
  /\ UNCHANGED <<envVars, httpVars, mockVars, opVars, wfVars>>

\* line 295: the subscribe message is sent again
MonResubscribe ==
  /\ monPc = "resubscribe"
  /\ nSubscribe' = nSubscribe + 1
  /\ monPc' = "recv"
  /\ UNCHANGED <<filename_expected, print_completed_successfully, monRet, monExc,
                 websocket, lastRecv, onlyQuiet, seenComplete, nTimeouts, nClose>>
  /\ UNCHANGED <<envVars, httpVars, mockVars, opVars, wfVars>>

\* line 295: websocket.send raises inside the except clause of line 293;
\* the clauses of lines 296-307 do not apply to it
MonResubscribeFail ==
  /\ monPc = "resubscribe"
  /\ ~enable_mock
  /\ monExc' = "ConnectionClosed"
  /\ websocket' \in {"open", "lost"}
  /\ monPc' = "finally"
  /\ UNCHANGED <<filename_expected, print_completed_successfully, monRet,
                 lastRecv, onlyQuiet, seenComplete, nSubscribe, nTimeouts, nClose>>
  /\ UNCHANGED <<envVars, httpVars, mockVars, opVars, wfVars>>

\* lines 296-298: the peer closed the connection cleanly
MonRecvClosedOK ==
  /\ monPc = "recv"
  /\ ~enable_mock
  /\ lastRecv' = RecvClosedOK
  /\ onlyQuiet' = FALSE
  /\ websocket' = "lost"
  /\ monPc' = "finally"
  /\ UNCHANGED <<filename_expected, print_completed_successfully, monRet, monExc,
                 seenComplete, nSubscribe, nTimeouts, nClose>>
  /\ UNCHANGED <<envVars, httpVars, mockVars, opVars, wfVars>>

\* lines 299-301 and 305-307: another WebSocketException (the connection
\* may or may not be closed by it), or any other exception of recv
MonRecvError ==
  /\ monPc = "recv"
  /\ ~enable_mock
  /\ \E e \in {"WebSocketException", "Exception"} : lastRecv' = RecvError(e)
  /\ onlyQuiet' = FALSE
  /\ websocket' \in {"open", "lost"}
  /\ monPc' = "finally"
  /\ UNCHANGED <<filename_expected, print_completed_successfully, monRet, monExc,
                 seenComplete, nSubscribe, nTimeouts, nClose>>
  /\ UNCHANGED <<envVars, httpVars, mockVars, opVars, wfVars>>

\* MonFinally without the test of websocket.closed of line 309
MonFinally_AlwaysClose ==
  /\ monPc = "finally"
  /\ LET unbound == ~enable_mock /\ websocket = "unbound"
         closes == ~enable_mock /\ websocket # "unbound"
         exc == IF unbound THEN "UnboundLocalError" ELSE monExc
     IN  /\ nClose' = IF closes THEN nClose + 1 ELSE nClose
         /\ websocket' = IF closes THEN "closed" ELSE websocket
         /\ monExc' = exc
         /\ monPc' = IF exc = "none" THEN "returned" ELSE "raised"
         /\ monRet' = IF exc = "none"
                      THEN JBool(print_completed_successfully)
                      ELSE Raised(exc)
  /\ UNCHANGED <<filename_expected, print_completed_successfully,
                 lastRecv, onlyQuiet, seenComplete, nSubscribe, nTimeouts>>
  /\ UNCHANGED <<envVars, httpVars, mockVars, opVars, wfVars>>

\* lines 308-312: the finally clause, then the return or the pending exception.
\* On a real device line 309 reads websocket.closed: the name websocket is
\* unbound when websockets.connect raised (UnboundLocalError).
MonFinally ==
  /\ monPc = "finally"
  /\ LET unbound == ~enable_mock /\ websocket = "unbound"
         closes == ~enable_mock /\ websocket = "open"
         exc == IF unbound THEN "UnboundLocalError" ELSE monExc
     IN  /\ nClose' = IF closes THEN nClose + 1 ELSE nClose
         /\ websocket' = IF closes THEN "closed" ELSE websocket
         /\ monExc' = exc
         /\ monPc' = IF exc = "none" THEN "returned" ELSE "raised"
         /\ monRet' = IF exc = "none"
                      THEN JBool(print_completed_successfully)
                      ELSE Raised(exc)
  /\ UNCHANGED <<filename_expected, print_completed_successfully,
                 lastRecv, onlyQuiet, seenComplete, nSubscribe, nTimeouts>>
  /\ UNCHANGED <<envVars, httpVars, mockVars, opVars, wfVars>>

(***************************************************************************)
(* automate_k1max_printing_workflow (lines 315-362).                       *)
(***************************************************************************)
NoCalls ==
  [check_connection |-> 0, is_printer_ready |-> 0, upload_gcode |-> 0,
   start_print |-> 0, monitor_print_status |-> 0]

Called(o) == calls' = [calls EXCEPT ![o] = @ + 1]

WfReturn(b) == wfPc' = "done" /\ wfRet' = JBool(b)

\* lines 323-331: the bridge is built, the mock is preset in simulation
\* mode, check_connection is called
WfBegin ==
  /\ wfPc = "begin"
  /\ IF enable_mock
     THEN /\ printer_state' = "ready"
          /\ print_filename' = JName(Basename(local_gcode_path))
          /\ print_progress' = 0
     ELSE UNCHANGED mockVars
  /\ OpCall("check_connection", None)
  /\ Called("check_connection")
  /\ wfPc' = "connect"
  /\ UNCHANGED <<wfRet, poll_i, gcode_filename_on_printer, polls, nPause>>
  /\ UNCHANGED <<envVars, httpVars, monVars>>

\* lines 331-337: check_connection has returned; the first readiness poll
WfConnected ==
  /\ wfPc = "connect"
  /\ opPc \in {"returned", "raised"}
  /\ IF opPc = "raised"
     THEN /\ wfPc' = "raised" /\ wfRet' = opRet
          /\ UNCHANGED <<opVars, calls, poll_i>>
     ELSE IF ~Truthy(opRet)
     THEN /\ WfReturn(FALSE)
          /\ UNCHANGED <<opVars, calls, poll_i>>
     ELSE /\ poll_i' = 0
          /\ OpCall("is_printer_ready", None)
          /\ Called("is_printer_ready")
          /\ wfPc' = "ready"
          /\ wfRet' = wfRet
  /\ UNCHANGED <<gcode_filename_on_printer, polls, nPause>>
  /\ UNCHANGED <<envVars, httpVars, mockVars, monVars>>

\* lines 337-338 and 346: is_printer_ready has returned; break and upload,
\* or go on to the pause of line 340
WfPolled ==
  /\ wfPc = "ready"
  /\ opPc \in {"returned", "raised"}
  /\ polls' = IF opPc = "returned" THEN Append(polls, Truthy(opRet)) ELSE polls
  /\ IF opPc = "raised"
     THEN /\ wfPc' = "raised" /\ wfRet' = opRet
          /\ UNCHANGED <<opVars, calls>>
     ELSE IF Truthy(opRet)
     THEN /\ OpCall("upload_gcode", JName(local_gcode_path))
          /\ Called("upload_gcode")
          /\ wfPc' = "upload"
          /\ wfRet' = wfRet
     ELSE /\ wfPc' = "pause"
          /\ wfRet' = wfRet
          /\ UNCHANGED <<opVars, calls>>
  /\ UNCHANGED <<poll_i, gcode_filename_on_printer, nPause>>
  /\ UNCHANGED <<envVars, httpVars, mockVars, monVars>>

\* WfPause with one more iteration of the loop of line 336
WfPause_SixPolls ==
  /\ wfPc = "pause"
  /\ nPause' = nPause + 1
  /\ IF poll_i < ReadyPolls
     THEN /\ poll_i' = poll_i + 1
          /\ OpCall("is_printer_ready", None)
          /\ Called("is_printer_ready")
          /\ wfPc' = "ready"
          /\ wfRet' = wfRet
     ELSE /\ WfReturn(FALSE)
          /\ UNCHANGED <<opVars, calls, poll_i>>
  /\ UNCHANGED <<gcode_filename_on_printer, polls>>
  /\ UNCHANGED <<envVars, httpVars, mockVars, monVars>>

\* lines 339-343: await asyncio.sleep(10), then the next poll, or the else
\* clause of the for loop once range(5) is exhausted
WfPause ==
  /\ wfPc = "pause"
  /\ nPause' = nPause + 1
  /\ IF poll_i + 1 < ReadyPolls
     THEN /\ poll_i' = poll_i + 1
          /\ OpCall("is_printer_ready", None)
          /\ Called("is_printer_ready")
          /\ wfPc' = "ready"
          /\ wfRet' = wfRet
     ELSE /\ WfReturn(FALSE)
          /\ UNCHANGED <<opVars, calls, poll_i>>
  /\ UNCHANGED <<gcode_filename_on_printer, polls>>
  /\ UNCHANGED <<envVars, httpVars, mockVars, monVars>>

\* WfUploaded without the test of line 347
WfUploaded_GoesOn ==
  /\ wfPc = "upload"
  /\ opPc = "returned"
  /\ gcode_filename_on_printer' = opRet
  /\ IF FALSE
     THEN /\ WfReturn(FALSE)
          /\ UNCHANGED <<opVars, calls>>
     ELSE /\ OpCall("start_print", opRet)
          /\ Called("start_print")
          /\ wfPc' = "start"
          /\ wfRet' = wfRet
  /\ UNCHANGED <<poll_i, polls, nPause>>
  /\ UNCHANGED <<envVars, httpVars, mockVars, monVars>>

\* lines 346-352: upload_gcode has returned (it never raises)
WfUploaded ==
  /\ wfPc = "upload"
  /\ opPc = "returned"
  /\ gcode_filename_on_printer' = opRet
  /\ IF ~Truthy(opRet)
     THEN /\ WfReturn(FALSE)
          /\ UNCHANGED <<opVars, calls>>
     ELSE /\ OpCall("start_print", opRet)
          /\ Called("start_print")
          /\ wfPc' = "start"
          /\ wfRet' = wfRet
  /\ UNCHANGED <<poll_i, polls, nPause>>
  /\ UNCHANGED <<envVars, httpVars, mockVars, monVars>>

\* WfStarted with the local path handed to monitor_print_status
WfStarted_MonitorsLocalPath ==
  /\ wfPc = "start"
  /\ opPc \in {"returned", "raised"}
  /\ IF opPc = "raised"
     THEN /\ wfPc' = "raised" /\ wfRet' = opRet
          /\ UNCHANGED <<monVars, calls>>
     ELSE IF ~Truthy(opRet)
     THEN /\ WfReturn(FALSE)
          /\ UNCHANGED <<monVars, calls>>
     ELSE /\ MonCall(JName(local_gcode_path))
          /\ Called("monitor_print_status")
          /\ wfPc' = "monitor"
          /\ wfRet' = wfRet
  /\ UNCHANGED <<poll_i, gcode_filename_on_printer, polls, nPause>>
  /\ UNCHANGED <<envVars, httpVars, mockVars, opVars>>

\* lines 352-356: start_print has returned; monitor_print_status is called
WfStarted ==
  /\ wfPc = "start"
  /\ opPc \in {"returned", "raised"}
  /\ IF opPc = "raised"
     THEN /\ wfPc' = "raised" /\ wfRet' = opRet
          /\ UNCHANGED <<monVars, calls>>
     ELSE IF ~Truthy(opRet)
     THEN /\ WfReturn(FALSE)
          /\ UNCHANGED <<monVars, calls>>
     ELSE /\ MonCall(gcode_filename_on_printer)
          /\ Called("monitor_print_status")
          /\ wfPc' = "monitor"
          /\ wfRet' = wfRet
  /\ UNCHANGED <<poll_i, gcode_filename_on_printer, polls, nPause>>
  /\ UNCHANGED <<envVars, httpVars, mockVars, opVars>>

\* lines 356-362: monitor_print_status has returned, or raised
WfMonitored ==
  /\ wfPc = "monitor"
  /\ monPc \in {"returned", "raised"}
  /\ IF monPc = "raised"
     THEN wfPc' = "raised" /\ wfRet' = monRet
     ELSE WfReturn(Truthy(monRet))
  /\ UNCHANGED <<poll_i, gcode_filename_on_printer, calls, polls, nPause>>
  /\ UNCHANGED <<envVars, httpVars, mockVars, opVars, monVars>>

WfIdle ==
  /\ wfPc = "idle" /\ wfRet = Pending /\ poll_i = 0
  /\ gcode_filename_on_printer = None /\ calls = NoCalls /\ polls = <<>>
  /\ nPause = 0

\* MoonrakerMockClient.__init__, lines 60-62
MockNew ==
  printer_state = "ready" /\ print_filename = None /\ print_progress = 0

(***************************************************************************)
(* check_bed_clear (src/camera_utils.py, lines 35-122).  Of a frame that   *)
(* was read the model keeps the area of its largest contour of difference. *)
(***************************************************************************)
CamIdle ==
  /\ camPc = "idle" /\ camRet = Pending /\ reference = "ok" /\ camOpens = FALSE
  /\ frame_i = 0 /\ objects_detected_count = 0 /\ frames_analysed = 0
  /\ cap_released = FALSE

\* the areas cv2.contourArea can give for the largest contour, around the
\* minimum
ContourAreas == {0, MIN_OBJECT_AREA, MIN_OBJECT_AREA + 1}

CamOthers == UNCHANGED <<httpVars, mockVars, opVars, monVars, wfVars>>
             /\ UNCHANGED <<entry, enable_mock, local_gcode_path, fileExists,
                            pathExists, argv, mainPc, exit_status>>

CamReturn(b) == camPc' = "returned" /\ camRet' = JBool(b)

\* lines 49-51: os.path.exists(reference_image_path) is false
CamNoReference ==
  /\ camPc = "start"
  /\ reference = "missing"
  /\ CamReturn(FALSE)
  /\ UNCHANGED <<reference, camOpens, frame_i, objects_detected_count,
                 frames_analysed, cap_released>>
  /\ CamOthers

\* lines 54-65: cv2.imread returns None, or the resize raises
CamBadReference ==
  /\ camPc = "start"
  /\ reference = "unreadable"
  /\ CamReturn(FALSE)
  /\ UNCHANGED <<reference, camOpens, frame_i, objects_detected_count,
                 frames_analysed, cap_released>>
  /\ CamOthers

\* lines 67-70: cap.isOpened() is false
CamNoCamera ==
  /\ camPc = "start"
  /\ reference = "ok"
  /\ ~camOpens
  /\ CamReturn(FALSE)
  /\ UNCHANGED <<reference, camOpens, frame_i, objects_detected_count,
                 frames_analysed, cap_released>>
  /\ CamOthers

\* lines 67-78: the stream is open, the loop over the frames begins
CamOpen ==
  /\ camPc = "start"
  /\ reference = "ok"
  /\ camOpens
  /\ camPc' = "frames"
  /\ frame_i' = 0
  /\ objects_detected_count' = 0
  /\ UNCHANGED <<camRet, reference, camOpens, frames_analysed, cap_released>>
  /\ CamOthers

\* lines 79-83: cap.read() gives no frame; sleep and continue
CamFrameUnread ==
  /\ camPc = "frames"
  /\ frame_i < NumFramesToCheck
  /\ frame_i' = frame_i + 1
  /\ UNCHANGED <<camPc, camRet, reference, camOpens, objects_detected_count,
                 frames_analysed, cap_released>>
  /\ CamOthers

\* lines 85-113: the frame is compared with the reference; a contour of an
\* area above MIN_OBJECT_AREA counts the frame
CamFrameAnalysed ==
  /\ camPc = "frames"
  /\ frame_i < NumFramesToCheck
  /\ \E area \in ContourAreas :
       objects_detected_count' =
         IF area > MIN_OBJECT_AREA
         THEN objects_detected_count + 1 ELSE objects_detected_count
  /\ frames_analysed' = frames_analysed + 1
  /\ frame_i' = frame_i + 1
  /\ UNCHANGED <<camPc, camRet, reference, camOpens, cap_released>>
  /\ CamOthers

\* lines 86-97: an OpenCV call raises on the frame; the try of line 72 has
\* only a finally (line 115), the exception leaves check_bed_clear
CamFrameRaises ==
  /\ camPc = "frames"
  /\ frame_i < NumFramesToCheck
  /\ cap_released' = TRUE
  /\ camPc' = "raised"
  /\ camRet' = Raised("cv2.error")
  /\ UNCHANGED <<reference, camOpens, frame_i, objects_detected_count,
                 frames_analysed>>
  /\ CamOthers

\* lines 114-122: the loop is over, cap.release(), the verdict
CamRelease ==
  /\ camPc = "frames"
  /\ frame_i >= NumFramesToCheck
  /\ cap_released' = TRUE
  /\ CamReturn(~(objects_detected_count > 0))
  /\ UNCHANGED <<reference, camOpens, frame_i, objects_detected_count,
                 frames_analysed>>
  /\ CamOthers

(***************************************************************************)
(* The script run from the command line (lines 365-401).  An argument is   *)
(* its sequence of characters; the two flags and the script's name are     *)
(* kept whole, as one character that is no "/".                            *)
(***************************************************************************)
ScriptName == <<"automacao_k1max.py">>
FlagReal == <<"--real">>
FlagMock == <<"--mock">>

\* sys.argv[1] is taken for the path whatever it is; the arguments after it
\* are only tested for being one of the flags
ArgTokens == Paths \cup {FlagReal, FlagMock}
LaterTokens == {FlagReal, FlagMock, <<"a">>}

RECURSIVE ArgListsOfLen(_)
ArgListsOfLen(n) ==
  IF n = 0 THEN {<<>>}
  ELSE IF n = 1 THEN {<<t>> : t \in ArgTokens}
  ELSE {Append(a, t) : a \in ArgListsOfLen(n - 1), t \in LaterTokens}

\* sys.argv[1:]
ArgLists == UNION {ArgListsOfLen(n) : n \in 0..MaxArgs}

\* tok in sys.argv
InArgv(tok) == \E k \in 1..Len(argv) : argv[k] = tok

\* lines 379-385: --real wins over --mock, the constant decides without a flag
UseMockMode ==
  IF InArgv(FlagReal) THEN FALSE
  ELSE IF InArgv(FlagMock) THEN TRUE
  ELSE ENABLE_MOCK_API_RESPONSES

\* sys.exit(status)
SysExit(status) == mainPc' = "exited" /\ exit_status' = JNum(status)

\* lines 371-374: no argument after the script name
MainNoPath ==
  /\ mainPc = "start"
  /\ Len(argv) < 2
  /\ SysExit(1)
  /\ UNCHANGED <<entry, enable_mock, local_gcode_path, fileExists, pathExists, argv, camVars>>
  /\ UNCHANGED <<httpVars, mockVars, opVars, monVars, wfVars>>

\* lines 376-395: the path does not exist and the mode is the real device
MainNoFile ==
  /\ mainPc = "start"
  /\ Len(argv) >= 2
  /\ local_gcode_path' = argv[2]
  /\ enable_mock' = UseMockMode
  /\ ~pathExists /\ ~UseMockMode
  /\ SysExit(1)
  /\ UNCHANGED <<entry, fileExists, pathExists, argv, camVars>>
  /\ UNCHANGED <<httpVars, mockVars, opVars, monVars, wfVars>>

\* MainRun without the test of os.path.exists of line 392
MainRun_NoExistsCheck ==
  /\ mainPc = "start"
  /\ Len(argv) >= 2
  /\ local_gcode_path' = argv[2]
  /\ enable_mock' = UseMockMode
  /\ mainPc' = "run"
  /\ wfPc' = "begin"
  /\ UNCHANGED <<entry, fileExists, pathExists, argv, exit_status, camVars>>
  /\ UNCHANGED <<wfRet, poll_i, gcode_filename_on_printer, calls, polls, nPause>>
  /\ UNCHANGED <<httpVars, mockVars, opVars, monVars>>

\* lines 376-401: the startup checks pass, asyncio.run starts the workflow
MainRun ==
  /\ mainPc = "start"
  /\ Len(argv) >= 2
  /\ local_gcode_path' = argv[2]
  /\ enable_mock' = UseMockMode
  /\ pathExists \/ UseMockMode
  /\ mainPc' = "run"
  /\ wfPc' = "begin"
  /\ UNCHANGED <<entry, fileExists, pathExists, argv, exit_status, camVars>>
  /\ UNCHANGED <<wfRet, poll_i, gcode_filename_on_printer, calls, polls, nPause>>
  /\ UNCHANGED <<httpVars, mockVars, opVars, monVars>>

\* line 401: asyncio.run returns the workflow's value, which the script
\* drops, and the interpreter ends with status 0; or asyncio.run raises
\* what the workflow raised, and the interpreter ends with status 1
MainExit ==
  /\ mainPc = "run"
  /\ wfPc \in {"done", "raised"}
  /\ SysExit(IF wfPc = "raised" THEN 1 ELSE 0)
  /\ UNCHANGED <<entry, enable_mock, local_gcode_path, fileExists, pathExists, argv, camVars>>
  /\ UNCHANGED <<httpVars, mockVars, opVars, monVars, wfVars>>

(***************************************************************************)
(* The caller.                                                             *)
(***************************************************************************)
\* a path that names a regular file has a base name: open() finds no file
\* at "" or at a path ending in "/"
CanExist(p) == IF Basename(p) = <<>> THEN {FALSE} ELSE BOOLEAN

\* os.path.exists is also true of a directory, and false of ""
PathCanExist(p) == IF p = <<>> THEN {FALSE} ELSE BOOLEAN

\* the script is not what runs, nor check_bed_clear
NoMain == argv = <<>> /\ mainPc = "none" /\ exit_status = None /\ CamIdle

\* robust_http_request(method, url, retries=n, delay=d)
InitHttp ==
  /\ entry = "http"
  /\ enable_mock = FALSE
  /\ local_gcode_path = <<>>
  /\ fileExists = FALSE
  /\ pathExists = fileExists /\ NoMain
  /\ httpPc = "loop"
  /\ retries \in 0..MaxRetries
  /\ delay \in 0..MaxDelay
  /\ delay0 = delay
  /\ i = 0
  /\ files_closed = FALSE
  /\ httpRet = None
  /\ httpTrace = <<>>
  /\ MockNew /\ OpIdle /\ MonIdle /\ WfIdle

\* K1MaxBridge(ip, port, enable_mock).monitor_print_status(name); in
\* simulation mode the caller may have set the mock's state and file name
\* (set_printer_state, set_print_details) before
InitMonitor ==
  /\ entry = "monitor"
  /\ enable_mock \in BOOLEAN
  /\ local_gcode_path = <<>>
  /\ fileExists = FALSE
  /\ pathExists = fileExists /\ NoMain
  /\ HttpIdle /\ OpIdle /\ WfIdle
  /\ IF enable_mock
     THEN /\ printer_state \in Phases
          /\ print_filename \in {None} \cup FileNames
          /\ print_progress = 0
     ELSE MockNew
  /\ monPc = "open"
  /\ filename_expected \in FileNames
  /\ print_completed_successfully = FALSE /\ monRet = Pending /\ monExc = "none"
  /\ websocket = "unbound" /\ lastRecv = NoRecv /\ onlyQuiet = TRUE
  /\ seenComplete = FALSE
  /\ nSubscribe = 0 /\ nTimeouts = 0 /\ nClose = 0

\* one method of a fresh K1MaxBridge
InitFacade ==
  /\ entry = "facade"
  /\ enable_mock \in BOOLEAN
  /\ local_gcode_path \in Paths
  /\ fileExists \in CanExist(local_gcode_path)
  /\ pathExists = fileExists /\ NoMain
  /\ HttpIdle /\ MockNew /\ MonIdle /\ WfIdle
  /\ op \in Ops
  /\ opPc = "request"
  /\ opRet = Pending
  /\ opArg \in CASE op = "upload_gcode" -> {JName(local_gcode_path)}
                 [] op = "start_print"  -> FileNames
                 [] OTHER               -> {None}

\* automate_k1max_printing_workflow(local_gcode_path, ip, port, use_mock)
InitWorkflow ==
  /\ entry = "workflow"
  /\ enable_mock \in BOOLEAN
  /\ local_gcode_path \in Paths
  /\ fileExists \in CanExist(local_gcode_path)
  /\ pathExists = fileExists /\ NoMain
  /\ HttpIdle /\ MockNew /\ OpIdle /\ MonIdle
  /\ wfPc = "begin" /\ wfRet = Pending /\ poll_i = 0
  /\ gcode_filename_on_printer = None /\ calls = NoCalls /\ polls = <<>>
  /\ nPause = 0

\* python automacao_k1max.py [args]: sys.argv, and what the file system
\* holds at sys.argv[1]
InitMain ==
  /\ entry = "main"
  /\ argv \in {<<ScriptName>> \o a : a \in ArgLists}
  /\ enable_mock = ENABLE_MOCK_API_RESPONSES
  /\ local_gcode_path = <<>>
  /\ fileExists \in (IF Len(argv) >= 2 THEN CanExist(argv[2]) ELSE {FALSE})
  /\ pathExists \in (IF Len(argv) >= 2
                      THEN {b \in PathCanExist(argv[2]) : fileExists => b}
                      ELSE {FALSE})
  /\ mainPc = "start"
  /\ exit_status = None
  /\ CamIdle
  /\ HttpIdle /\ MockNew /\ OpIdle /\ MonIdle /\ WfIdle

\* check_bed_clear(camera_stream_url, reference_image_path): what the file
\* system holds at the reference path and whether the stream opens
InitCamera ==
  /\ entry = "camera"
  /\ enable_mock = FALSE
  /\ local_gcode_path = <<>>
  /\ fileExists = FALSE /\ pathExists = FALSE
  /\ argv = <<>> /\ mainPc = "none" /\ exit_status = None
  /\ HttpIdle /\ MockNew /\ OpIdle /\ MonIdle /\ WfIdle
  /\ camPc = "start" /\ camRet = Pending
  /\ reference \in {"missing", "unreadable", "ok"}
  /\ camOpens \in BOOLEAN
  /\ frame_i = 0 /\ objects_detected_count = 0 /\ frames_analysed = 0
  /\ cap_released = FALSE

Init ==
  InitHttp \/ InitMonitor \/ InitFacade \/ InitWorkflow \/ InitMain \/ InitCamera

Next ==
  \/ HttpLoopExit
  \/ HttpAttemptOk
  \/ HttpAttemptFail
  \/ HttpAttemptClosedFile
  \/ HttpSleep
  \/ OpRequestMock
  \/ OpUploadNoFile
  \/ OpRequestReal
  \/ OpResponse
  \/ MonOpenMock
  \/ MonOpenReal
  \/ MonOpenFail
  \/ MonSubscribe
  \/ MonSubscribeFail
  \/ MonRecvTimeout
  \/ MonResubscribe
  \/ MonResubscribeFail
  \/ MonRecvClosedOK
  \/ MonRecvError
  \/ MonFinally
  \/ MonRecvMock
  \/ MonRecvReal
  \/ WfBegin
  \/ WfConnected
  \/ WfPolled
  \/ WfPause
  \/ WfUploaded
  \/ WfStarted
  \/ WfMonitored
  \/ MainNoPath
  \/ MainNoFile
  \/ MainRun
  \/ MainExit
  \/ CamNoReference
  \/ CamBadReference
  \/ CamNoCamera
  \/ CamOpen
  \/ CamFrameUnread
  \/ CamFrameAnalysed
  \/ CamFrameRaises
  \/ CamRelease

Spec == Init /\ [][Next]_vars

\* the event loop runs whatever can run: a step that is possible is taken
FairSpec == Spec /\ WF_vars(Next)
(***************************************************************************)
(* Properties.                                                             *)
(***************************************************************************)
RECURSIVE Pow2(_)
Pow2(k) == IF k <= 0 THEN 1 ELSE 2 * Pow2(k - 1)

\* n failed attempts with the n-1 sleeps d, 2d, 4d, ... between them
BackoffTrace(n, d) ==
  [k \in 1..(2 * n - 1) |->
     IF k % 2 = 1 THEN EvAttempt(FALSE) ELSE EvSleep(d * Pow2((k \div 2) - 1))]

NoAttemptSucceeded ==
  \A k \in DOMAIN httpTrace : httpTrace[k].ev = "attempt" => ~httpTrace[k].ok

HttpOver == httpPc = "returned"

\* C1: when robust_http_request, called with a retry budget n >= 1 and an
\* initial delay d, has returned without any attempt succeeding, it made
\* exactly n attempts, slept exactly n-1 times, for d, 2d, ..., 2^(n-2)d in
\* that order, each sleep between two attempts and none after the last, and
\* returned None.
C1_AllFailBackoff ==
  (HttpOver /\ retries >= 1 /\ NoAttemptSucceeded)
    => (httpTrace = BackoffTrace(retries, delay0) /\ httpRet = None)

\* a call with a budget of at least three and a delay of one has failed throughout
C1_Witness ==
  /\ entry = "http" /\ httpPc = "returned" /\ retries >= 3 /\ delay0 = 1
  /\ NoAttemptSucceeded
  /\ Len(httpTrace) = 2 * retries - 1

MonOver == monPc \in {"returned", "raised"}

\* C2: once monitor_print_status has left its receive loop, it has returned
\* (it has not raised), the value returned is True if and only if a
\* notification of the expected file in phase complete was received, and
\* it is False otherwise.
C2_ReturnsTrueIffComplete ==
  (MonOver /\ nSubscribe >= 1)
    => /\ monPc = "returned"
       /\ monRet = JBool(TRUE) <=> seenComplete
       /\ ~seenComplete => monRet = JBool(FALSE)

LastIsFailure ==
  /\ Matches(lastRecv, filename_expected)
  /\ PhaseOf(lastRecv) \in FailurePhases

\* C3: when the last thing received is a notification of the expected file
\* in phase error, cancelled or shutdown, the receive loop has ended
\* (nothing is received after it: monitoring is in its finally clause or has
\* returned, and it has not raised), the success flag is not set, and the
\* value returned is False.
C3_FailurePhaseEndsLoop ==
  /\ [](LastIsFailure =>
          /\ monPc \in {"finally", "returned"}
          /\ ~print_completed_successfully
          /\ monPc = "returned" => monRet = JBool(FALSE))
  /\ [][LastIsFailure => lastRecv' = lastRecv]_vars

\* monitoring of a real device has returned after a matching shutdown notification
C3_Witness ==
  /\ ~enable_mock /\ monPc = "returned"
  /\ LastIsFailure /\ PhaseOf(lastRecv) = "shutdown"

\* C4: as long as everything received was a notification of the expected
\* file in a phase other than complete, error, cancelled and shutdown
\* (paused among them), monitoring is waiting for the next frame and has
\* neither returned nor raised.
C4_QuietNeverEnds ==
  (lastRecv # NoRecv /\ onlyQuiet)
    => (monPc = "recv" /\ monRet = Pending /\ ~print_completed_successfully)

\* a matching paused notification was received, after quiet ones only
C4_Witness ==
  /\ ~enable_mock /\ onlyQuiet
  /\ Matches(lastRecv, filename_expected) /\ PhaseOf(lastRecv) = "paused"
  /\ monPc = "recv"

\* C5: when the last thing received is a notification whose filename is not
\* the expected one (a notification without a filename included), whatever
\* its phase, monitoring is waiting for the next frame, has not returned,
\* and its success flag is as before (not set).
C5_MismatchIgnored ==
  Mismatches(lastRecv, filename_expected)
    => (monPc = "recv" /\ monRet = Pending /\ ~print_completed_successfully)

\* a notification of phase complete that names no file was received
C5_Witness ==
  /\ ~enable_mock
  /\ IsStatus(lastRecv) /\ FilenameOf(lastRecv) = Absent
  /\ PhaseOf(lastRecv) = "complete"
  /\ monPc = "recv"

\* the loop was left at a frame (lines 284, 287, 304, 307)
LeftAtFrame == lastRecv.t \notin {"norecv", "TimeoutError", "ConnectionClosedOK", "error"}

\* C6 as stated: in every monitoring run, real or simulated, close is
\* invoked exactly once, whichever way the run ends.
C6_ClosedExactlyOnce == MonOver => nClose = 1

\* C6 as amended: close is invoked at most once per run; in a finished run it
\* was invoked exactly once when the device is real and the loop was left at
\* a frame (complete, a failure phase, a malformed frame), and not at all in
\* simulation mode, after a clean close by the peer, and after a failure to
\* open the channel.
C6_ClosedWhenOpen ==
  /\ nClose <= 1
  /\ enable_mock => nClose = 0
  /\ (MonOver /\ ~enable_mock /\ LeftAtFrame /\ monExc = "none") => nClose = 1
  /\ (MonOver /\ lastRecv = RecvClosedOK) => nClose = 0
  /\ (MonOver /\ websocket = "unbound") => nClose = 0

\* a run on a real device has returned after a matching complete, the
\* channel closed once
C6_Witness ==
  /\ ~enable_mock /\ monPc = "returned"
  /\ seenComplete /\ LeftAtFrame
  /\ nClose = 1 /\ websocket = "closed"

\* C7: no run of automate_k1max_printing_workflow ends in an exception.
C7_NeverRaises == entry = "workflow" => wfPc # "raised"

FailedStage ==
  /\ entry = "workflow" /\ wfPc \in {"connect", "upload", "start"}
  /\ opPc = "returned" /\ ~Truthy(opRet)

ReadinessExhausted ==
  /\ entry = "workflow" /\ wfPc \in {"ready", "pause"}
  /\ op = "is_printer_ready" /\ opPc = "returned" /\ ~Truthy(opRet)
  /\ calls.is_printer_ready = ReadyPolls

\* C8: when check_connection has returned False, upload_gcode None or
\* start_print False, the next step of the orchestrator returns False without
\* invoking any bridge method; when the fifth readiness poll has returned
\* False, the orchestrator invokes no bridge method any more and returns
\* False; and after it has returned, nothing is invoked.
C8_StageFailureIsTerminal ==
  [][/\ FailedStage =>
          (wfPc' = "done" /\ wfRet' = JBool(FALSE) /\ calls' = calls)
     /\ ReadinessExhausted =>
          /\ calls' = calls
          /\ wfPc' \in {"ready", "pause", "done"}
          /\ wfPc' = "done" => wfRet' = JBool(FALSE)
     /\ wfPc = "done" =>
          (wfPc' = "done" /\ wfRet' = wfRet /\ calls' = calls)]_vars

\* the run has ended with failure after upload_gcode returned None
C8_Witness ==
  /\ entry = "workflow" /\ wfPc = "done" /\ wfRet = JBool(FALSE)
  /\ op = "upload_gcode" /\ opRet = None
  /\ calls.upload_gcode = 1 /\ calls.start_print = 0

\* C9, in what it says of the upload stage: a run on a real device whose
\* local file exists, whose connectivity check and readiness polls
\* succeeded and in which the device refused no upload attempt, does not
\* end with failure in the upload stage.
C9_RealRunSucceeds ==
  ~ /\ entry = "workflow" /\ ~enable_mock /\ fileExists
    /\ wfPc = "done" /\ wfRet = JBool(FALSE)
    /\ op = "upload_gcode"
    /\ NoAttemptSucceeded /\ \A k \in DOMAIN httpTrace : httpTrace[k].ev # "attempt"

AllPollsFalse == Len(polls) = ReadyPolls /\ \A k \in DOMAIN polls : ~polls[k]

\* C10: the orchestrator makes at most 5 readiness polls, and when all 5
\* have returned False it invokes nothing else (no sixth poll, no upload,
\* start or monitoring) and the value it returns is False.
C10_FivePollsThenFailure ==
  entry = "workflow" =>
    /\ Len(polls) <= ReadyPolls
    /\ AllPollsFalse =>
         /\ wfPc \in {"pause", "done"}
         /\ calls.is_printer_ready = ReadyPolls
         /\ calls.upload_gcode = 0
         /\ calls.start_print = 0
         /\ calls.monitor_print_status = 0
         /\ wfPc = "done" => wfRet = JBool(FALSE)

\* the run has returned after five polls that all returned False
C10_Witness ==
  /\ entry = "workflow" /\ wfPc = "done" /\ AllPollsFalse
  /\ calls.is_printer_ready = ReadyPolls

InWorkflow == entry \in {"workflow", "main"}

\* upload_gcode is the method in progress (or the last one called), on a
\* real device, for a local file that open() does not find
UploadOfMissingFile == op = "upload_gcode" /\ ~enable_mock /\ ~fileExists

\* C11: on a real device, when the local file does not exist, upload_gcode
\* never calls robust_http_request (no attempt, no retry) and returns None;
\* the orchestrator then returns False and has invoked neither start_print
\* nor monitor_print_status.
C11_MissingFileNoTransport ==
  UploadOfMissingFile =>
    /\ opPc \in {"request", "returned"}
    /\ opPc = "returned" => opRet = None
    /\ entry = "facade" => (httpPc = "idle" /\ httpTrace = <<>>)
    /\ InWorkflow =>
         /\ wfPc \in {"upload", "done"}
         /\ calls.start_print = 0 /\ calls.monitor_print_status = 0
         /\ wfPc = "done" => wfRet = JBool(FALSE)

\* a run of the orchestrator on a real device has ended with failure after
\* the upload of a missing file
C11_Witness ==
  /\ entry = "workflow" /\ UploadOfMissingFile /\ local_gcode_path = <<"a">>
  /\ wfPc = "done" /\ wfRet = JBool(FALSE)
  /\ opPc = "returned" /\ opRet = None /\ calls.upload_gcode = 1

\* C12: an idle timeout is no failure: when the last receive timed out,
\* monitoring is still running (it re-subscribes or receives again); and
\* when monitoring has returned after a timeout and a later terminal
\* notification of the expected file, the value returned is the one of that
\* notification (True for complete, False for the failure phases).
C12_TimeoutNeverFails ==
  /\ lastRecv = RecvTimeout => monPc \in {"resubscribe", "recv"}
  /\ (/\ nTimeouts >= 1 /\ monPc = "returned"
      /\ Matches(lastRecv, filename_expected)
      /\ PhaseOf(lastRecv) \in TerminalPhases)
       => monRet = JBool(PhaseOf(lastRecv) = "complete")

\* what get_printer_state returned to the call of is_printer_ready
StateQueried ==
  GetPrinterState(IF enable_mock THEN MockHttpResponse("printer/objects/query")
                  ELSE httpRet)

\* C13: when is_printer_ready has returned, its value is True if and only
\* if get_printer_state returned "ready" or "idle"; it is False for every
\* other phase and for None.
C13_ReadyIffReadyOrIdle ==
  (op = "is_printer_ready" /\ opPc = "returned") =>
    /\ opRet \in {JBool(TRUE), JBool(FALSE)}
    /\ opRet = JBool(TRUE) <=> StateQueried \in {JStr("ready"), JStr("idle")}
    /\ (StateQueried = None \/
        \E ph \in Phases \ {"ready", "idle"} : StateQueried = JStr(ph))
         => opRet = JBool(FALSE)

\* is_printer_ready has returned True on a real device that reported idle
C13_Witness ==
  /\ entry = "facade" /\ ~enable_mock
  /\ op = "is_printer_ready" /\ opPc = "returned"
  /\ httpRet = StateBody(JStr("idle")) /\ opRet = JBool(TRUE)

\* the upload request of line 203 was answered with success
UploadAnswered ==
  /\ httpTrace # <<>>
  /\ httpTrace[Len(httpTrace)].ev = "attempt" /\ httpTrace[Len(httpTrace)].ok
  /\ Truthy(httpRet)

\* C14: on a real device, when the local file exists, the file object
\* handed to the request is open while robust_http_request runs, and
\* upload_gcode returns the base name of the path when the request was
\* answered with success and None when it failed.
C14_UploadReadsOpenFile ==
  (op = "upload_gcode" /\ ~enable_mock /\ fileExists) =>
    /\ opPc = "wait" => ~files_closed
    /\ (opPc = "returned" /\ UploadAnswered) => opRet = JName(Basename(opArg.c))
    /\ (opPc = "returned" /\ ~UploadAnswered) => opRet = None

\* the command line has no path, or names the real device and a path that
\* does not exist
StartupError ==
  entry = "main" /\ (Len(argv) < 2 \/ (~UseMockMode /\ ~pathExists))

\* C15: when the command line has no path argument, or selects the real
\* device with a path that does not exist, the script does nothing but end
\* with a nonzero exit status: no bridge method, no request and no
\* monitoring is ever invoked.  In simulation mode a path that does not
\* exist does not stop the run: the script ends only after the orchestrator
\* has run.
C15_StartupErrorsExit ==
  /\ StartupError =>
       /\ mainPc \in {"start", "exited"}
       /\ mainPc = "exited" => (exit_status.t = "num" /\ exit_status.n # 0)
       /\ calls = NoCalls /\ op = "none" /\ httpPc = "idle"
       /\ monPc = "idle" /\ wfPc = "idle"
  /\ (/\ entry = "main" /\ Len(argv) >= 2 /\ UseMockMode /\ ~pathExists
      /\ mainPc = "exited")
       => (calls.check_connection = 1 /\ wfPc \in {"done", "raised"})

\* the script has ended with status 1: real device, the path does not exist
C15_Witness ==
  /\ entry = "main" /\ argv = <<ScriptName, <<"a">>, FlagReal>>
  /\ ~pathExists /\ mainPc = "exited" /\ exit_status = JNum(1)
  /\ calls = NoCalls

\* C16: when the script has ended after the orchestrator returned, the
\* exit status is nonzero if the orchestrator returned False and zero if it
\* returned True.
C16_ExitStatusSignalsOutcome ==
  (entry = "main" /\ mainPc = "exited" /\ wfPc = "done") =>
    /\ wfRet = JBool(FALSE) => exit_status # JNum(0)
    /\ wfRet = JBool(TRUE) => exit_status = JNum(0)

\* a JSON object whose method is notify_status_update
StatusNotification(frame) ==
  /\ frame.t = "dict"
  /\ "method" \in DOMAIN frame.v
  /\ frame.v["method"] = JStr("notify_status_update")

\* params is a list whose first element is an object
HasData(frame) ==
  /\ "params" \in DOMAIN frame.v
  /\ frame.v["params"].t = "list"
  /\ frame.v["params"].l # <<>>
  /\ frame.v["params"].l[1].t = "dict"

DataOf(frame) == frame.v["params"].l[1].v

\* a frame that is not a status notification with params, print_stats and
\* state
Malformed(frame) ==
  \/ frame = BadJson
  \/ /\ frame.t \in {"null", "num", "bool", "str", "list", "dict"}
     /\ \/ ~StatusNotification(frame)
        \/ ~HasData(frame)
        \/ "print_stats" \notin DOMAIN DataOf(frame)
        \/ DataOf(frame)["print_stats"].t # "dict"
        \/ "state" \notin DOMAIN DataOf(frame)["print_stats"].v

ChannelError(x) == x.t = "error"

BadStats(ps) ==
  \/ ps.t \in {"null", "num", "bool"}
  \/ /\ ps.t = "dict"
     /\ "state" \in DOMAIN ps.v
     /\ \/ "progress" \in DOMAIN ps.v /\ ps.v["progress"].t \notin {"num", "bool"}
        \/ "print_duration" \in DOMAIN ps.v
             /\ ps.v["print_duration"].t \notin {"num", "bool"}

\* the JSON string "method", or a JSON list that holds it
HoldsMethod(frame) ==
  \/ frame.t = "str" /\ frame.s = "method"
  \/ frame.t = "list" /\ \E j \in 1..Len(frame.l) : frame.l[j] = JStr("method")

\* a frame the loop cannot process: not JSON, a JSON null, number or
\* boolean (or a string or list that holds "method"), or a status
\* notification whose params are missing, are not a list that starts with
\* an object, or hold print_stats that cannot be read
Unprocessable(frame) ==
  \/ frame = BadJson
  \/ frame.t \in {"null", "num", "bool"}
  \/ HoldsMethod(frame)
  \/ /\ StatusNotification(frame)
     /\ \/ ~HasData(frame)
        \/ /\ "print_stats" \in DOMAIN DataOf(frame)
           /\ BadStats(DataOf(frame)["print_stats"])

\* a frame the loop skips: a JSON object without method or of another
\* method (or a JSON string or list), or a status notification without
\* print_stats or without state
Ignorable(frame) ==
  \/ frame.t = "dict" /\ ~StatusNotification(frame)
  \/ frame.t \in {"str", "list"} /\ ~HoldsMethod(frame)
  \/ /\ StatusNotification(frame) /\ HasData(frame)
     /\ \/ "print_stats" \notin DOMAIN DataOf(frame)
        \/ /\ DataOf(frame)["print_stats"].t = "dict"
           /\ "state" \notin DOMAIN DataOf(frame)["print_stats"].v

EndsLoop(x) == ChannelError(x) \/ Unprocessable(x)

SingleStages == {"check_connection", "upload_gcode", "start_print", "monitor_print_status"}

Invoked(o) == calls'[o] = calls[o] + 1

\* C18: the orchestrator invokes check_connection, upload_gcode,
\* start_print and monitor_print_status at most once each; it invokes
\* check_connection first, is_printer_ready only after check_connection
\* returned success (or after a poll that returned False), upload_gcode only
\* after a poll returned True, start_print only after upload_gcode returned
\* a name, and with that name, and monitor_print_status only after
\* start_print returned success, and with the name upload_gcode returned.
C18_StagesInOrder ==
  [][InWorkflow =>
       /\ \A o \in SingleStages : calls'[o] <= 1
       /\ \A o \in DOMAIN calls : calls'[o] = calls[o] \/ Invoked(o)
       /\ Invoked("check_connection") => calls = NoCalls
       /\ Invoked("is_printer_ready") =>
            /\ calls.check_connection = 1 /\ calls.upload_gcode = 0
            /\ \/ op = "check_connection" /\ opPc = "returned" /\ Truthy(opRet)
               \/ op = "is_printer_ready" /\ opPc = "returned" /\ ~Truthy(opRet)
       /\ Invoked("upload_gcode") =>
            /\ op = "is_printer_ready" /\ opPc = "returned" /\ Truthy(opRet)
            /\ opArg' = JName(local_gcode_path)
            /\ calls.start_print = 0
       /\ Invoked("start_print") =>
            /\ op = "upload_gcode" /\ opPc = "returned" /\ Truthy(opRet)
            /\ opArg' = opRet
            /\ gcode_filename_on_printer' = opRet
            /\ calls.monitor_print_status = 0
       /\ Invoked("monitor_print_status") =>
            /\ op = "start_print" /\ opPc = "returned" /\ Truthy(opRet)
            /\ opArg = gcode_filename_on_printer
            /\ filename_expected' = gcode_filename_on_printer]_vars

\* a simulated run for the path /a has gone through all stages and
\* monitored the name a
C18_Witness ==
  /\ entry = "workflow" /\ local_gcode_path = <<"/", "a">>
  /\ wfPc = "done" /\ wfRet = JBool(TRUE)
  /\ calls.start_print = 1 /\ calls.monitor_print_status = 1
  /\ opArg = JName(<<"a">>) /\ filename_expected = JName(<<"a">>)

\* C19: once the readiness stage is over, it made at most 5 polls and one
\* pause less than polls: it paused between consecutive polls only, not
\* after the last one.
C19_PausesBetweenPolls ==
  (/\ InWorkflow /\ calls.is_printer_ready >= 1
   /\ wfPc \in {"upload", "start", "monitor", "done", "raised"})
    => /\ calls.is_printer_ready <= ReadyPolls
       /\ nPause = calls.is_printer_ready - 1

\* C20: whenever monitoring is about to receive, and when it has returned,
\* the subscribe messages sent are one more than the idle timeouts so far;
\* after a timeout the message of that timeout is the next thing sent; a
\* subscribe message is only ever sent, one at a time, right after the
\* channel opened or right after a timeout, never on a notification.
C20_SubscribePerTimeout ==
  /\ [](monPc \in {"recv", "returned"} => nSubscribe = 1 + nTimeouts)
  /\ [](monPc = "subscribe" => (nSubscribe = 0 /\ lastRecv = NoRecv))
  /\ [](monPc = "resubscribe" =>
          (lastRecv = RecvTimeout /\ nSubscribe = nTimeouts))
  /\ [][nSubscribe' # nSubscribe =>
          /\ nSubscribe' = nSubscribe + 1
          /\ monPc \in {"subscribe", "resubscribe"}
          /\ monPc' = "recv"]_vars

\* monitoring of a real device has returned after two timeouts and three
\* subscribe messages
C20_Witness ==
  /\ entry = "monitor" /\ ~enable_mock /\ monPc = "returned"
  /\ nTimeouts = 2 /\ nSubscribe = 3
  /\ Matches(lastRecv, filename_expected)

\* the receive loop was entered and has been left
LoopLeft == nSubscribe >= 1 /\ monPc \in {"finally", "returned", "raised"}

\* a notification of the expected file in a terminal phase
TerminalMatch(x) ==
  Matches(x, filename_expected) /\ PhaseOf(x) \in TerminalPhases

\* C21: monitoring ends only at a terminal notification of the expected
\* file, a clean close of the channel, a channel error (of the receive, or
\* of the send of a re-subscribe, which ends it by raising) or a frame that
\* cannot be processed; and it returns only at the first four of these.  So
\* after timeouts, non-terminal notifications, notifications of another
\* file and skipped frames, however many, monitoring is still in its loop.
C21_EndsOnlyOnTerminalEvents ==
  /\ LoopLeft =>
       \/ TerminalMatch(lastRecv)
       \/ lastRecv = RecvClosedOK
       \/ ChannelError(lastRecv)
       \/ Unprocessable(lastRecv)
       \/ lastRecv = RecvTimeout /\ monExc = "ConnectionClosed" /\ monPc # "returned"
  /\ (nSubscribe >= 1 /\ monPc = "returned") => lastRecv # RecvTimeout

\* after as many timeouts as the model follows and a complete notification
\* of another file, monitoring of a real device is about to receive again
C21_Witness ==
  /\ entry = "monitor" /\ ~enable_mock /\ monPc = "recv"
  /\ nTimeouts = MaxTimeouts /\ nSubscribe = MaxTimeouts + 1
  /\ Mismatches(lastRecv, filename_expected) /\ PhaseOf(lastRecv) = "complete"

\* a method of the facade has ended on a real device
RealOpOver(o) == ~enable_mock /\ op = o /\ opPc \in {"returned", "raised"}

\* a response whose result is an object that holds the version
WellFormedInfo(body) ==
  /\ body.t = "dict"
  /\ "result" \in DOMAIN body.v
  /\ body.v["result"].t = "dict"
  /\ "api_version" \in DOMAIN body.v["result"].v

\* C22: when check_connection has ended on a real device, it has returned
\* (not raised), True if the response of the info query is a well-formed
\* success response and False otherwise: when robust_http_request returned
\* None, when the body is empty and when it lacks the result with the
\* version.
C22_ConnectedIffWellFormed ==
  RealOpOver("check_connection") =>
    /\ opPc = "returned"
    /\ opRet = JBool(WellFormedInfo(httpRet))

\* field k of x when x is an object that has it
HasField(x, k) == x.t = "dict" /\ k \in DOMAIN x.v

\* result.status.printer.state of a body in which every field on the way
\* is there and is an object, None for every other body
NestedState(body) ==
  IF /\ HasField(body, "result")
     /\ HasField(body.v["result"], "status")
     /\ HasField(body.v["result"].v["status"], "printer")
     /\ HasField(body.v["result"].v["status"].v["printer"], "state")
  THEN body.v["result"].v["status"].v["printer"].v["state"]
  ELSE None

\* C23: when get_printer_state has ended on a real device, it has returned
\* (not raised): the nested phase when the body holds result, status,
\* printer and state, each of the first three an object, and None for every
\* other response (request failure, empty body, a field missing, a field
\* that is no object).
C23_StateOrNoneNeverRaises ==
  RealOpOver("get_printer_state") =>
    /\ opPc = "returned"
    /\ opRet = NestedState(httpRet)

\* k-1 failed attempts with the sleeps d, 2d, 4d, ... after them, then the
\* attempt answered with body
FirstSuccessTrace(k, d, body) ==
  [j \in 1..(2 * k - 1) |->
     IF j = 2 * k - 1 THEN EvAnswer(body)
     ELSE IF j % 2 = 1 THEN EvAttempt(FALSE)
     ELSE EvSleep(d * Pow2((j \div 2) - 1))]

LastAttemptSucceeded == httpTrace # <<>> /\ httpTrace[Len(httpTrace)].ok

\* C24: when robust_http_request has returned after an attempt that
\* succeeded, that attempt, the k-th, is the first to succeed and the last
\* thing it did: before it come k-1 failed attempts, each followed by one
\* sleep, for d, 2d, ..., 2^(k-2)d, k is within the budget, and the value
\* returned is the parsed response of attempt k; and once it has returned,
\* no attempt and no sleep is added to this call.
C24_FirstSuccessEndsCall ==
  /\ []((HttpOver /\ LastAttemptSucceeded) =>
          LET k == (Len(httpTrace) + 1) \div 2
          IN  /\ k <= retries
              /\ httpTrace = FirstSuccessTrace(k, delay0, httpRet))
  /\ [][HttpOver =>
          \/ httpTrace' = httpTrace /\ httpRet' = httpRet
          \/ httpTrace' = <<>> /\ httpPc' = "loop"]_vars

\* a call with delay 1 has returned the response of its third attempt
C24_Witness ==
  /\ entry = "http" /\ HttpOver /\ LastAttemptSucceeded
  /\ Len(httpTrace) = 5 /\ delay0 = 1 /\ httpRet = InfoBody

\* a run of the orchestrator in simulation mode
SimRun == InWorkflow /\ enable_mock /\ wfPc # "idle"

\* C25 as stated: a run of the orchestrator in simulation mode that has
\* ended has returned True, whatever the path.
C25_SimulationAlwaysSucceeds ==
  (SimRun /\ wfPc = "done") => wfRet = JBool(TRUE)

NamedFile == Basename(local_gcode_path) # <<>>

AllStagesOnce ==
  calls = [check_connection |-> 1, is_printer_ready |-> 1, upload_gcode |-> 1,
           start_print |-> 1, monitor_print_status |-> 1]

\* C25, amended: a run of the orchestrator in simulation mode for a path
\* with a non-empty base name ends, and it returns True: it never raises,
\* the connectivity check and the first readiness poll succeed, the upload
\* stores the base name as the simulated filename, the start moves the
\* simulated phase to printing before monitoring begins, and the run ends
\* at a received notification of phase complete, progress 1 and the
\* filename monitoring expects.  For a path with an empty base name the run
\* ends too, with False after the upload and without start or monitoring.
C25_SimulationSucceedsForNamedFile ==
  /\ []((SimRun /\ NamedFile) =>
          /\ wfPc # "raised"
          /\ (wfPc = "monitor" /\ monPc = "open") =>
               (printer_state = "printing" /\ print_progress = 0)
          /\ wfPc \in {"start", "monitor", "done"} =>
               /\ polls = <<TRUE>>
               /\ print_filename = JName(Basename(local_gcode_path))
               /\ gcode_filename_on_printer = print_filename
          /\ wfPc = "done" =>
               /\ wfRet = JBool(TRUE)
               /\ AllStagesOnce
               /\ printer_state = "complete" /\ print_progress = ProgressOne
               /\ Matches(lastRecv, filename_expected)
               /\ PhaseOf(lastRecv) = "complete"
               /\ filename_expected = print_filename)
  /\ []((SimRun /\ ~NamedFile /\ wfPc = "done") =>
          /\ wfRet = JBool(FALSE)
          /\ op = "upload_gcode"
          /\ calls.start_print = 0 /\ calls.monitor_print_status = 0)
  /\ (SimRun ~> wfPc = "done")

\* a simulated run for the path /a has ended with True after its receives
C25_Witness ==
  /\ SimRun /\ local_gcode_path = <<"/", "a">>
  /\ wfPc = "done" /\ wfRet = JBool(TRUE)
  /\ printer_state = "complete" /\ print_progress = ProgressOne
  /\ print_filename = JName(<<"a">>)

\* the simulated device of a run of the orchestrator
SimDevice == InWorkflow /\ enable_mock

\* C26: in a run of the orchestrator in simulation mode the simulated
\* progress is within [0, 1] and never decreases, and the simulated phase is
\* complete only with progress 1; and in simulation mode a receive made
\* when the phase is complete leaves phase, filename and progress as they
\* are.
C26_ProgressBoundedMonotone ==
  /\ [](SimDevice =>
          /\ 0 <= print_progress /\ print_progress <= ProgressOne
          /\ printer_state = "complete" => print_progress = ProgressOne)
  /\ [][SimDevice => print_progress' >= print_progress]_vars
  /\ [][(enable_mock /\ monPc = "recv" /\ printer_state = "complete")
          => mockVars' = mockVars]_vars

\* the simulated run has received the notification that completes the
\* print, at progress 1
C26_Witness ==
  /\ SimDevice /\ wfPc = "monitor" /\ monPc = "finally"
  /\ printer_state = "complete" /\ print_progress = ProgressOne
  /\ print_completed_successfully

\* a method of the facade answers in simulation mode
MockAnswers(o) ==
  enable_mock /\ op = o /\ opPc = "request" /\ opPc' # "request"

\* C27: in simulation mode check_connection, get_printer_state and
\* is_printer_ready leave the simulated phase, filename and progress
\* unchanged; upload_gcode changes the simulated filename only (to the base
\* name of its argument); start_print changes the simulated phase only (to
\* printing).
C27_MockFrameEffects ==
  [][/\ \A o \in {"check_connection", "get_printer_state", "is_printer_ready"} :
          MockAnswers(o) => mockVars' = mockVars
     /\ MockAnswers("upload_gcode") =>
          /\ print_filename' = JName(Basename(opArg.c))
          /\ printer_state' = printer_state /\ print_progress' = print_progress
     /\ MockAnswers("start_print") =>
          /\ printer_state' = "printing"
          /\ print_filename' = print_filename /\ print_progress' = print_progress]_vars

\* upload_gcode("/a") has returned in simulation mode: the simulated
\* filename is a, the phase still ready
C27_Witness ==
  /\ entry = "facade" /\ enable_mock /\ local_gcode_path = <<"/", "a">>
  /\ op = "upload_gcode" /\ opPc = "returned" /\ opRet = JName(<<"a">>)
  /\ print_filename = JName(<<"a">>) /\ printer_state = "ready"
  /\ print_progress = 0

\* C28: when check_bed_clear has returned True, at least one frame was read
\* and analysed and no analysed frame held a region above the minimum
\* area; and it has returned False when a frame held such a region, when
\* the reference image is missing or unreadable and when the camera did not
\* open.
C28_ClearOnlyIfAnalysed ==
  (entry = "camera" /\ camPc = "returned") =>
    /\ camRet = JBool(TRUE) =>
         (frames_analysed >= 1 /\ objects_detected_count = 0)
    /\ (objects_detected_count > 0 \/ reference # "ok" \/ ~camOpens)
         => camRet = JBool(FALSE)
=============================================================================
